---- MODULE Spec2Model ----
(***************************************************************************)
(* A model of the ChatRoom Durable Object of src/src/index.ts: the         *)
(* clients Map, the hibernatable WebSockets the runtime keeps for the      *)
(* object, the storage partition of the room, and the handlers fetch,      *)
(* webSocketMessage, webSocketClose, broadcastClientsCount, sendHistory    *)
(* and the constructor.                                                    *)
(*                                                                         *)
(* Strings are sequences of one-character strings.  A server-to-client     *)
(* frame (the argument of ws.send, a JSON text) is a record that names the *)
(* shape of the JSON object: its userName, and its message split into the  *)
(* prefix ("user_count:", "error:", "history:", or none for chat content)  *)
(* and the payload that follows the prefix.                                *)
(*                                                                         *)
(* Spec has three sockets, valid payloads and puts that resolve.           *)
(* SpecFaults has two sockets, rejected payloads, puts that are rejected   *)
(* and handlers that await their puts at the same time.  SpecRooms has     *)
(* the fetch of the worker and one ChatRoom object per room name.          *)
(***************************************************************************)
EXTENDS Integers, Sequences, FiniteSets, TLC

\* ------------------------------------------------------------------ bounds
MaxClock == 1        \* the clock takes the values 0..MaxClock
MaxPersist == 2      \* chat messages accepted for persistence in one run
MaxChats == 1        \* the same, in the runs with three sockets
MaxInterleaved == 2  \* storage.put calls awaited at the same time

\* ------------------------------------------------- constants of the program
NameMin == 1
NameMax == 32
MessageMin == 1
MessageMax == 255
HistoryLimit == 100

\* the WebSocket objects of the model
Conns == {"c1", "c2", "c3"}
\* the WebSocket objects of the runs with faults
Pair == {"c1", "c2"}

\* --------------------------------------------------------------- strings
Str(n, ch) == [i \in 1..n |-> ch]

LowerCase == {"a","b","c","d","e","f","g","h","i","j","k","l","m",
              "n","o","p","q","r","s","t","u","v","w","x","y","z"}
UpperCase == {"A","B","C","D","E","F","G","H","I","J","K","L","M",
              "N","O","P","Q","R","S","T","U","V","W","X","Y","Z"}
Digits == {"0","1","2","3","4","5","6","7","8","9"}

\* /^[a-zA-Z][0-9a-zA-Z-_ ]/ : not anchored at the end, so it tests the
\* first two characters only (and needs two characters).  In the class,
\* Z-_ is the range from "Z" to "_"; the class has no "-".
NameRegex(s) ==
    /\ Len(s) >= 2
    /\ s[1] \in LowerCase \cup UpperCase
    /\ s[2] \in Digits \cup LowerCase \cup UpperCase
                \cup {"[", "\\", "]", "^", "_", " "}

SystemName == <<"s","y","s","t","e","m">>

\* ------------------------------------------------------ the raw payloads
\* A raw payload is a JSON text: either it does not parse, or it parses to
\* an object with an optional userName and an optional message.
NoString == <<>>

RawObject(hasName, name, hasMsg, msg) ==
    [parses |-> TRUE, hasUserName |-> hasName, userName |-> name,
     hasMessage |-> hasMsg, message |-> msg]

RawGarbage ==
    [parses |-> FALSE, hasUserName |-> FALSE, userName |-> NoString,
     hasMessage |-> FALSE, message |-> NoString]

Al == <<"a","l">>
Bo == <<"B","o","b">>

\* the text of the k-th chat message of a run: the messages of a run are
\* pairwise different, so that a frame tells which message it carries
DecimalDigit(k) == <<"0","1","2","3","4","5","6","7","8","9">>[k + 1]
Text(k) == <<"m", "s", "g", " ", DecimalDigit(k)>>

ValidRaws(k) ==
    { RawObject(TRUE, Al, FALSE, NoString),
      RawObject(TRUE, Bo, TRUE, Text(k)) }

InvalidRaws ==
    { RawGarbage,
      RawObject(TRUE, <<"a">>, TRUE, NoString),
      RawObject(TRUE, Str(NameMax + 1, "1"), TRUE, Str(MessageMax + 1, "x")) }

Raws(k) == ValidRaws(k) \cup InvalidRaws

\* ------------------------------------------------------- chatMessageSchema
\* JSON.parse in parseJsonPreprocessor: the issue it adds on a parse error
ParseJsonIssues(raw) ==
    IF raw.parses THEN <<>> ELSE <<"Unexpected token">>

\* the checks of the userName field, in the order zod runs them
UserNameIssues(raw) ==
    IF ~raw.parses THEN <<"Expected object, received string">>
    ELSE IF ~raw.hasUserName THEN <<"Required">>
    ELSE (IF Len(raw.userName) < NameMin THEN <<"Name is too short">> ELSE <<>>)
         \o (IF Len(raw.userName) > NameMax THEN <<"Name is too long">> ELSE <<>>)
         \o (IF ~NameRegex(raw.userName) THEN <<"Invalid">> ELSE <<>>)

\* the checks of the optional message field
MessageIssues(raw) ==
    IF ~raw.parses \/ ~raw.hasMessage THEN <<>>
    ELSE (IF Len(raw.message) < MessageMin THEN <<"Message is too short">> ELSE <<>>)
         \o (IF Len(raw.message) > MessageMax THEN <<"Message too long">> ELSE <<>>)

Issues(raw) == ParseJsonIssues(raw) \o UserNameIssues(raw) \o MessageIssues(raw)

\* chatMessageSchema.safeParse(message)
SafeParse(raw) ==
    [success |-> Issues(raw) = <<>>,
     data |-> [userName |-> raw.userName, hasMessage |-> raw.hasMessage,
               message |-> raw.message],
     errors |-> Issues(raw)]

\* ---------------------------------------------------------------- frames
NoBatch == <<>>

\* JSON.stringify(parsedMessage.data)
ChatFrame(data) ==
    [userName |-> data.userName, prefix |-> "", hasMessage |-> data.hasMessage,
     text |-> data.message, count |-> 0, batch |-> NoBatch]

NoFrame == ChatFrame([userName |-> NoString, hasMessage |-> FALSE, message |-> NoString])

\* JSON.stringify of { message: `user_count:${size}`, userName: 'system' }
UserCountFrame(size) ==
    [userName |-> SystemName, prefix |-> "user_count:", hasMessage |-> TRUE,
     text |-> NoString, count |-> size, batch |-> NoBatch]

\* JSON.stringify of { message: `error:${issue}`, userName: 'system' }
ErrorFrame(issue) ==
    [userName |-> SystemName, prefix |-> "error:", hasMessage |-> TRUE,
     text |-> <<issue>>, count |-> 0, batch |-> NoBatch]

\* JSON.stringify of { userName: 'system', message: `history:${...}` }
HistoryFrame(backlog) ==
    [userName |-> SystemName, prefix |-> "history:", hasMessage |-> TRUE,
     text |-> NoString, count |-> 0, batch |-> backlog]

\* --------------------------------------------------------- the clients Map
\* A Map is its entry list: the entries in insertion order.  Deleting an entry
\* empties its slot, so that a forEach in progress skips it; the emptied slots
\* are invisible to every Map operation and are dropped between handlers.
Undefined == [defined |-> FALSE, userName |-> NoString]
Metadata(name) == [defined |-> TRUE, userName |-> name]

Slot(ws, meta) == [empty |-> FALSE, ws |-> ws, meta |-> meta]
EmptySlot == [empty |-> TRUE, ws |-> "", meta |-> Undefined]

MapKeys(slots) == { slots[i].ws : i \in { j \in DOMAIN slots : ~slots[j].empty } }
MapSize(slots) == Cardinality({ i \in DOMAIN slots : ~slots[i].empty })
MapHas(slots, ws) == ws \in MapKeys(slots)

MapGet(slots, ws) ==
    IF MapHas(slots, ws)
    THEN slots[CHOOSE i \in DOMAIN slots : ~slots[i].empty /\ slots[i].ws = ws].meta
    ELSE Undefined

MapSet(slots, ws, meta) ==
    IF MapHas(slots, ws)
    THEN [i \in DOMAIN slots |->
            IF ~slots[i].empty /\ slots[i].ws = ws THEN Slot(ws, meta) ELSE slots[i]]
    ELSE Append(slots, Slot(ws, meta))

\* a delete that leaves the Map as it is
MapDeleteNothing(slots, ws) == slots

\* Map.delete: the entry goes, the entries after it keep their places for an
\* iteration that is under way
MapDelete(slots, ws) ==
    [i \in DOMAIN slots |->
        IF ~slots[i].empty /\ slots[i].ws = ws THEN EmptySlot ELSE slots[i]]

IsFilled(slot) == ~slot.empty
Compact(slots) == SelectSeq(slots, IsFilled)

\* a send that succeeded, as seen by the peer
Sent(ws, frame) == [to |-> ws, frame |-> frame]

\* ------------------------------------------------- broadcastClientsCount
\* this.clients.forEach of broadcastClientsCount, from entry i on.  alive is
\* the set of sockets whose send does not throw.
RECURSIVE CountLoop(_, _, _, _, _)
CountLoop(slots, alive, log, frame, i) ==
    IF i > Len(slots) THEN [slots |-> slots, log |-> log]
    ELSE IF slots[i].empty THEN CountLoop(slots, alive, log, frame, i + 1)
    ELSE IF slots[i].ws \in alive
         THEN CountLoop(slots, alive, Append(log, Sent(slots[i].ws, frame)), frame, i + 1)
         ELSE CountLoop(MapDelete(slots, slots[i].ws), alive, log, frame, i + 1)

BroadcastClientsCount(slots, alive, log) ==
    CountLoop(slots, alive, log, UserCountFrame(MapSize(slots)), 1)

\* ----------------------------------------- the fan-out of webSocketMessage
\* a catch block that broadcasts the count without deleting the session first
FanOutCatchStale(slots, alive, log, ws) ==
    BroadcastClientsCount(slots, alive, log)

\* the catch block of the fan-out
FanOutCatch(slots, alive, log, ws) ==
    BroadcastClientsCount(MapDelete(slots, ws), alive, log)

\* a fan-out that a failed send ends
RECURSIVE FanOutLoopAborting(_, _, _, _, _)
FanOutLoopAborting(slots, alive, log, frame, i) ==
    IF i > Len(slots) THEN [slots |-> slots, log |-> log]
    ELSE IF slots[i].empty THEN FanOutLoopAborting(slots, alive, log, frame, i + 1)
    ELSE IF slots[i].ws \in alive
         THEN FanOutLoopAborting(slots, alive, Append(log, Sent(slots[i].ws, frame)),
                                 frame, i + 1)
         ELSE FanOutCatch(slots, alive, log, slots[i].ws)

\* this.clients.forEach of webSocketMessage, from entry i on
RECURSIVE FanOutLoop(_, _, _, _, _)
FanOutLoop(slots, alive, log, frame, i) ==
    IF i > Len(slots) THEN [slots |-> slots, log |-> log]
    ELSE IF slots[i].empty THEN FanOutLoop(slots, alive, log, frame, i + 1)
    ELSE IF slots[i].ws \in alive
         THEN FanOutLoop(slots, alive, Append(log, Sent(slots[i].ws, frame)), frame, i + 1)
         ELSE LET r == FanOutCatch(slots, alive, log, slots[i].ws)
              IN FanOutLoop(r.slots, alive, r.log, frame, i + 1)

\* ------------------------------------------------------------ the storage
\* toISOString: a fixed-width, zero-padded rendering of the clock
ToISOString(t) == <<t \div 10, t % 10>>

\* the order of the keys of the storage: lexicographic
KeyLess(a, b) ==
    \E i \in 1..Len(a) :
        /\ i <= Len(b)
        /\ a[i] < b[i]
        /\ \A j \in 1..(i - 1) : a[j] = b[j]

RECURSIVE KeysDescending(_)
KeysDescending(keys) ==
    IF keys = {} THEN <<>>
    ELSE LET top == CHOOSE k \in keys : \A o \in keys \ {k} : KeyLess(o, k)
         IN <<top>> \o KeysDescending(keys \ {top})

Take(seq, n) == SubSeq(seq, 1, IF Len(seq) < n THEN Len(seq) ELSE n)
\* a batch left in the order of the list, newest first
ReverseNothing(seq) == seq

\* Array.prototype.reverse
Reverse(seq) == [i \in 1..Len(seq) |-> seq[Len(seq) + 1 - i]]

\* storage.list({ reverse: true, limit }) followed by [...storage.values()]
ListValues(st, limit) ==
    LET keys == Take(KeysDescending(DOMAIN st), limit)
    IN [i \in 1..Len(keys) |-> st[keys[i]]]

\* storage.put(key, value)
Put(st, key, value) ==
    [k \in DOMAIN st \cup {key} |-> IF k = key THEN value ELSE st[k]]

\* a handler that sends nothing before its put completes
FanOutDeferred(slots, alive, frame) == [slots |-> slots, log |-> <<>>]

\* the fan-out of webSocketMessage
FanOut(slots, alive, frame) == FanOutLoop(slots, alive, <<>>, frame, 1)

\* the sockets that received frame in log
Reached(log, frame) == { log[i].to : i \in { j \in DOMAIN log : log[j].frame = frame } }

\* The storage operations that handlers await.  A put carries the set of
\* sockets that the fan-out before it reached.
PutOp(key, value, to) ==
    [kind |-> "put", ws |-> "", key |-> key, value |-> value, to |-> to]
ListOp(ws) ==
    [kind |-> "list", ws |-> ws, key |-> <<>>, value |-> NoFrame, to |-> {}]

IsPut(o) == o.kind = "put"
Remove(seq, i) == SubSeq(seq, 1, i - 1) \o SubSeq(seq, i + 1, Len(seq))

\* a storage that completes its operations in any order
CanCompleteOutOfOrder(queue, i) == i \in DOMAIN queue

\* the storage completes its operations in the order they were issued
CanComplete(queue, i) == i = 1 /\ i \in DOMAIN queue

\* the frame sendHistory sends, and to whom
HistoryBacklog(st) == Reverse(ListValues(st, HistoryLimit))
\* a sendHistory that sends the batch to every registered session
SendHistoryToAll(slots, st, ws) ==
    [i \in 1..Len(slots) |-> Sent(slots[i].ws, HistoryFrame(HistoryBacklog(st)))]

SendHistory(slots, st, ws) == <<Sent(ws, HistoryFrame(HistoryBacklog(st)))>>

\* -------------------------------------------------- the fetch of the worker
\* String.prototype.toLowerCase, on the letters of the model
ToLowerCaseChar(ch) ==
    IF ch \in UpperCase
    THEN [A |-> "a", B |-> "b", C |-> "c", D |-> "d", E |-> "e", F |-> "f",
          G |-> "g", H |-> "h", I |-> "i", J |-> "j", K |-> "k", L |-> "l",
          M |-> "m", N |-> "n", O |-> "o", P |-> "p", Q |-> "q", R |-> "r",
          S |-> "s", T |-> "t", U |-> "u", V |-> "v", W |-> "w", X |-> "x",
          Y |-> "y", Z |-> "z"][ch]
    ELSE ch

ToLowerCase(s) == [i \in DOMAIN s |-> ToLowerCaseChar(s[i])]

\* s.split('/')[0]
FirstSegment(s) ==
    LET slashes == { i \in DOMAIN s : s[i] = "/" }
    IN IF slashes = {} THEN s
       ELSE SubSeq(s, 1, (CHOOSE i \in slashes : \A j \in slashes : i <= j) - 1)

DefaultRoom == <<"d", "e", "f", "a", "u", "l", "t">>

\* a worker that takes the first segment as it is written
RouteAsWritten(pathname) ==
    LET first == FirstSegment(Tail(pathname))
    IN IF Len(first) > 0 THEN first ELSE DefaultRoom

\* const path = url.pathname.slice(1).split('/');
\* const room = path[0] && path[0].length > 0 ? path[0].toLowerCase() : 'default'
Route(pathname) ==
    LET first == FirstSegment(Tail(pathname))
    IN IF Len(first) > 0 THEN ToLowerCase(first) ELSE DefaultRoom

\* the values of url.pathname in the requests of the model
Pathnames ==
    { <<"/">>,
      <<"/", "d", "e", "f", "a", "u", "l", "t">>,
      <<"/", "D", "e", "f", "a", "u", "l", "t">>,
      <<"/", "l", "o", "b", "b", "y">>,
      <<"/", "L", "o", "b", "b", "y">>,
      <<"/", "L", "O", "B", "B", "Y", "/", "x">> }

\* request.headers.get('Upgrade'); "" stands for null
UpgradeHeaders == {"", "websocket", "WebSocket"}

\* !upgradeHeader || upgradeHeader !== 'websocket'
UpgradeRequired(upgradeHeader) == upgradeHeader = "" \/ upgradeHeader # "websocket"

\* the names that idFromName is given
RoomNames == { Route(p) : p \in Pathnames }

\* a ChatRoom object before its first request
NewRoom == [clients |-> <<>>, accepted |-> {}, alive |-> {}, store |-> <<>>]

\* ------------------------------------------------------------- the state
\* this.clients: the entry list of the Map
VARIABLE clients
\* the hibernatable WebSockets of the object: ctx.getWebSockets()
VARIABLE accepted
\* the accepted WebSockets whose send does not throw
VARIABLE alive
\* the attachment serialized on each WebSocket
VARIABLE attachment
\* the clock read by new Date()
VARIABLE now
\* this.storage: key -> value
VARIABLE store
\* the storage operations awaited by handlers (the put of webSocketMessage,
\* the list of sendHistory), oldest first
VARIABLE awaited
\* the WebSockets whose fetch awaits storage.list
VARIABLE joining
\* the values of the completed storage.put calls, in order
VARIABLE persisted
\* the handler step that ran last
VARIABLE op
\* the sends that succeeded in that step, in order
VARIABLE sent
\* per WebSocket: the prefixes of the frames its fetch sent it
VARIABLE joinLog
\* per WebSocket: the chat frames it received while its fetch awaited the list
VARIABLE joinLive
\* the number of chat messages fanned out so far
VARIABLE chats
\* per room name: the ChatRoom object that env.CHAT_ROOM.get returns for it
VARIABLE rooms
\* the request that the worker handled last, or the event that a room did
VARIABLE roomOp
\* the frames that the step that ran last sent, in the order of the sends
VARIABLE roomSent

vars == <<clients, accepted, alive, attachment, now, store, awaited, joining,
          persisted, op, sent, joinLog, joinLive, chats, rooms, roomOp, roomSent>>

roomVars == <<rooms, roomOp, roomSent>>

NoParse == SafeParse(RawGarbage)
NoKey == <<>>

Op(kind, ws, parsed, key) ==
    [kind |-> kind, ws |-> ws, parsed |-> parsed, key |-> key,
     before |-> clients, attachmentBefore |-> attachment,
     storeBefore |-> store, awaitedBefore |-> awaited,
     live |-> {}]

Idle == [kind |-> "none", ws |-> "", parsed |-> NoParse, key |-> NoKey,
         before |-> <<>>, attachmentBefore |-> [c \in Conns |-> Undefined],
         storeBefore |-> <<>>, awaitedBefore |-> <<>>, live |-> {}]

RoomOp(kind, pathname, room, ws) ==
    [kind |-> kind, pathname |-> pathname, room |-> room, ws |-> ws, before |-> rooms]

RoomIdle == [kind |-> "none", pathname |-> <<>>, room |-> <<>>, ws |-> "",
             before |-> [r \in RoomNames |-> NewRoom]]

PrefixesTo(log, ws) ==
    LET mine == SelectSeq(log, LAMBDA e : e.to = ws)
    IN [i \in 1..Len(mine) |-> mine[i].frame.prefix]

Init ==
    /\ clients = <<>>
    /\ accepted = {}
    /\ alive = {}
    /\ attachment = [c \in Conns |-> Undefined]
    /\ now = 0
    /\ store = <<>>
    /\ awaited = <<>>
    /\ joining = {}
    /\ persisted = <<>>
    /\ op = Idle
    /\ sent = <<>>
    /\ joinLog = [c \in Conns |-> <<>>]
    /\ joinLive = [c \in Conns |-> {}]
    /\ chats = 0
    /\ rooms = [r \in RoomNames |-> NewRoom]
    /\ roomOp = RoomIdle
    /\ roomSent = <<>>

\* ----------------------------------------------------------- constructor
Orderings(S) ==
    { s \in [1..Cardinality(S) -> S] : \A i, j \in DOMAIN s : i # j => s[i] # s[j] }

\* a constructor that leaves the Map empty
ReconstructEmpty(order) == <<>>

\* this.ctx.getWebSockets().forEach(ws => this.clients.set(ws, undefined))
Reconstruct(order) == [i \in DOMAIN order |-> Slot(order[i], Undefined)]

\* The object is evicted while no handler is in progress and constructed
\* again; getWebSockets returns the accepted sockets in some order.
Constructor ==
    /\ awaited = <<>>
    /\ \E order \in Orderings(accepted) :
          clients' = Reconstruct(order)
    /\ op' = Op("constructor", "", NoParse, NoKey)
    /\ sent' = <<>>
    /\ UNCHANGED <<accepted, alive, attachment, now, store, awaited, joining,
                   persisted, joinLog, joinLive, chats>>
    /\ UNCHANGED roomVars

\* ----------------------------------------------------------------- fetch
\* fetch up to the await of storage.list: acceptWebSocket, clients.set,
\* broadcastClientsCount.  The server socket is a new object.
Fetch(ws) ==
    /\ ws \notin accepted
    /\ LET r == BroadcastClientsCount(MapSet(clients, ws, Undefined),
                                      alive \cup {ws}, <<>>)
       IN /\ clients' = Compact(r.slots)
          /\ sent' = r.log
          /\ joinLog' = [joinLog EXCEPT ![ws] = PrefixesTo(r.log, ws)]
    /\ accepted' = accepted \cup {ws}
    /\ alive' = alive \cup {ws}
    /\ attachment' = [attachment EXCEPT ![ws] = Undefined]
    /\ joining' = joining \cup {ws}
    /\ awaited' = Append(awaited, ListOp(ws))
    /\ joinLive' = [joinLive EXCEPT ![ws] = {}]
    /\ op' = Op("fetch", ws, NoParse, NoKey)
    /\ UNCHANGED <<now, store, persisted, chats>>
    /\ UNCHANGED roomVars

\* a fetch that broadcasts the membership count after the await as well
FetchResumeCounting(ws) ==
    /\ ws \in joining
    /\ \E i \in DOMAIN awaited :
          /\ CanComplete(awaited, i)
          /\ awaited[i] = ListOp(ws)
          /\ awaited' = Remove(awaited, i)
    /\ joining' = joining \ {ws}
    /\ LET r == BroadcastClientsCount(clients, alive, <<>>)
       IN /\ clients' = Compact(r.slots)
          /\ sent' = r.log \o SendHistory(clients, store, ws)
    /\ joinLog' = [joinLog EXCEPT ![ws] = @ \o PrefixesTo(sent', ws)]
    /\ joinLive' = [joinLive EXCEPT ![ws] = {}]
    /\ op' = [Op("history", ws, NoParse, NoKey) EXCEPT !.live = joinLive[ws]]
    /\ UNCHANGED <<accepted, alive, attachment, now, store, persisted, chats>>
    /\ UNCHANGED roomVars

\* fetch from the completion of storage.list on: the rest of sendHistory
FetchResume(ws) ==
    /\ ws \in joining
    /\ \E i \in DOMAIN awaited :
          /\ CanComplete(awaited, i)
          /\ awaited[i] = ListOp(ws)
          /\ awaited' = Remove(awaited, i)
    /\ joining' = joining \ {ws}
    /\ sent' = SendHistory(clients, store, ws)
    /\ joinLog' = [joinLog EXCEPT ![ws] = @ \o PrefixesTo(sent', ws)]
    /\ joinLive' = [joinLive EXCEPT ![ws] = {}]
    /\ op' = [Op("history", ws, NoParse, NoKey) EXCEPT !.live = joinLive[ws]]
    /\ UNCHANGED <<clients, accepted, alive, attachment, now, store, persisted, chats>>
    /\ UNCHANGED roomVars

\* ------------------------------------------------------ webSocketMessage
\* !parsedMessage.data.userName
NoUserName(data) == Len(data.userName) = 0

\* !userMetaData?.userName
NoStoredName(meta) == ~(meta.defined /\ Len(meta.userName) > 0)

\* a handler that broadcasts and persists every validated message
HasMessageAlways(data) == TRUE

\* the truthiness test of parsedMessage.data.message
HasMessage(data) == data.hasMessage /\ Len(data.message) > 0

\* a handler that reports every issue, not the first
ErrorNoticeForEveryIssue(ws, parsed) ==
    [i \in 1..Len(parsed.errors) |-> Sent(ws, ErrorFrame(parsed.errors[i]))]

\* the error notice and whom it goes to
ErrorNotice(ws, parsed) == <<Sent(ws, ErrorFrame(parsed.errors[1]))>>

\* the Map after the metadata block
WithMetadata(slots, ws, data) ==
    IF NoUserName(data) THEN MapSet(slots, ws, Metadata(data.userName)) ELSE slots

\* the attachment of ws after the metadata block
WithAttachment(att, ws, data, meta) ==
    IF NoUserName(data) /\ NoStoredName(meta)
    THEN [att EXCEPT ![ws] = Metadata(data.userName)]
    ELSE att

\* webSocketMessage up to the await of storage.put (or to its return)
WebSocketMessage(ws, raw) ==
    /\ ws \in accepted
    /\ ws \in alive
    /\ ws \notin joining
    /\ LET parsed == SafeParse(raw)
           meta == MapGet(clients, ws)
       IN /\ op' = Op("message", ws, parsed,
                      IF parsed.success /\ HasMessage(parsed.data)
                      THEN ToISOString(now) ELSE NoKey)
          /\ IF ~parsed.success
             THEN /\ sent' = ErrorNotice(ws, parsed)
                  /\ UNCHANGED <<clients, attachment, awaited, joinLive, chats>>
             ELSE /\ attachment' = WithAttachment(attachment, ws, parsed.data, meta)
                  /\ IF HasMessage(parsed.data)
                     THEN /\ chats < MaxPersist
                          /\ chats' = chats + 1
                          /\ LET frame == ChatFrame(parsed.data)
                                 r == FanOut(WithMetadata(clients, ws, parsed.data),
                                             alive, frame)
                             IN /\ clients' = Compact(r.slots)
                                /\ sent' = r.log
                                /\ awaited' = Append(awaited,
                                                     PutOp(ToISOString(now), frame,
                                                           Reached(r.log, frame)))
                                /\ joinLive' =
                                      [c \in Conns |->
                                          IF c \in joining \cap Reached(r.log, frame)
                                          THEN joinLive[c] \cup {frame}
                                          ELSE joinLive[c]]
                     ELSE /\ clients' = WithMetadata(clients, ws, parsed.data)
                          /\ sent' = <<>>
                          /\ UNCHANGED <<awaited, joinLive, chats>>
    /\ UNCHANGED <<accepted, alive, now, store, joining, persisted, joinLog>>
    /\ UNCHANGED roomVars

\* the completion of the oldest awaited storage.put
PutResume ==
    /\ \E i \in DOMAIN awaited :
          /\ CanComplete(awaited, i)
          /\ IsPut(awaited[i])
          /\ store' = Put(store, awaited[i].key, awaited[i].value)
          /\ persisted' = Append(persisted, awaited[i].value)
          /\ awaited' = Remove(awaited, i)
          /\ op' = Op("put", "", NoParse, awaited[i].key)
    /\ sent' = <<>>
    /\ UNCHANGED <<clients, accepted, alive, attachment, now, joining, joinLog,
                   joinLive, chats>>
    /\ UNCHANGED roomVars

\* the oldest awaited storage.put rejects: webSocketMessage ends with the
\* exception, after its fan-out
PutFail ==
    /\ \E i \in DOMAIN awaited :
          /\ CanComplete(awaited, i)
          /\ IsPut(awaited[i])
          /\ awaited' = Remove(awaited, i)
          /\ op' = Op("putfail", "", NoParse, awaited[i].key)
    /\ sent' = <<>>
    /\ UNCHANGED <<clients, accepted, alive, attachment, now, store, joining,
                   persisted, joinLog, joinLive, chats>>
    /\ UNCHANGED roomVars

\* -------------------------------------------------------- webSocketClose
\* the close codes and reasons that the runtime hands to webSocketClose; the
\* handler passes them to ws.close and makes no other use of them
CloseCodes == {1000, 1006}
CloseReasons == {"", "bye"}

WebSocketClose(ws, code, reason) ==
    /\ ws \in accepted
    /\ ws \notin joining
    /\ LET r == BroadcastClientsCount(MapDelete(clients, ws), alive \ {ws}, <<>>)
       IN /\ clients' = Compact(r.slots)
          /\ sent' = r.log
    /\ accepted' = accepted \ {ws}
    /\ alive' = alive \ {ws}
    /\ joinLog' = [joinLog EXCEPT ![ws] = <<>>]
    /\ op' = Op("close", ws, NoParse, NoKey)
    /\ UNCHANGED <<attachment, now, store, awaited, joining, persisted, joinLive, chats>>
    /\ UNCHANGED roomVars

\* ------------------------------------------------------- the environment
\* the peer of ws goes away: from now on websocket.send throws
SendStartsThrowing(ws) ==
    /\ ws \in alive
    /\ ws \notin joining
    /\ alive' = alive \ {ws}
    /\ op' = Idle
    /\ sent' = <<>>
    /\ UNCHANGED <<clients, accepted, attachment, now, store, awaited, joining,
                   persisted, joinLog, joinLive, chats>>
    /\ UNCHANGED roomVars

\* the clock of new Date() advances by a millisecond
Tick ==
    /\ now < MaxClock
    /\ now' = now + 1
    /\ op' = Idle
    /\ sent' = <<>>
    /\ UNCHANGED <<clients, accepted, alive, attachment, store, awaited, joining,
                   persisted, joinLog, joinLive, chats>>
    /\ UNCHANGED roomVars

\* the storage.put calls that handlers await
PendingPuts == Len(SelectSeq(awaited, IsPut))

\* a payload with chat content arrives only while fewer than limit handlers
\* await their put
Throttled(raw, limit) ==
    (SafeParse(raw).success /\ HasMessage(SafeParse(raw).data)) => PendingPuts < limit

\* a payload with chat content arrives only among the first limit of them
Rationed(raw, limit) ==
    (SafeParse(raw).success /\ HasMessage(SafeParse(raw).data)) => chats < limit

\* Three sockets.  Every payload passes the validation (a rejected payload
\* changes no state of the object), every storage.put resolves, and MaxChats
\* chat messages are handled.
Next ==
    \/ Constructor
    \/ \E ws \in Conns : Fetch(ws)
    \/ \E ws \in Conns : FetchResume(ws)
    \/ \E ws \in Conns, raw \in ValidRaws(chats + 1) :
          Rationed(raw, MaxChats) /\ WebSocketMessage(ws, raw)
    \/ PutResume
    \/ \E ws \in Conns, code \in CloseCodes, reason \in CloseReasons :
          WebSocketClose(ws, code, reason)
    \/ \E ws \in Conns : SendStartsThrowing(ws)
    \/ Tick

Spec == Init /\ [][Next]_vars

\* Two sockets.  Payloads pass the validation or fail it, a storage.put
\* resolves or rejects, and up to MaxInterleaved handlers await their put at
\* the same time.
NextFaults ==
    \/ Constructor
    \/ \E ws \in Pair : Fetch(ws)
    \/ \E ws \in Pair : FetchResume(ws)
    \/ \E ws \in Pair, raw \in Raws(chats + 1) :
          Throttled(raw, MaxInterleaved) /\ WebSocketMessage(ws, raw)
    \/ PutResume
    \/ PutFail
    \/ \E ws \in Pair, code \in CloseCodes, reason \in CloseReasons :
          WebSocketClose(ws, code, reason)
    \/ \E ws \in Pair : SendStartsThrowing(ws)
    \/ Tick

SpecFaults == Init /\ [][NextFaults]_vars

\* ================================================================= rooms
\* The worker and the ChatRoom objects it routes to.  Each object has its own
\* clients Map, its own hibernatable WebSockets and its own storage; here a
\* storage operation completes before the next event, and the events of a
\* run fall in one millisecond.
InRoom(ws) == { r \in RoomNames : ws \in rooms[r].accepted }

\* fetch of the worker, and ChatRoom.fetch of the object it forwards to
WorkerFetch(pathname, upgradeHeader, ws) ==
    /\ InRoom(ws) = {}
    /\ LET room == Route(pathname)
           o == rooms[room]
           r == BroadcastClientsCount(MapSet(o.clients, ws, Undefined),
                                      o.alive \cup {ws}, <<>>)
       IN IF UpgradeRequired(upgradeHeader)
          THEN /\ roomOp' = RoomOp("426", pathname, room, ws)
               /\ roomSent' = <<>>
               /\ UNCHANGED rooms
          ELSE /\ roomOp' = RoomOp("fetch", pathname, room, ws)
               /\ rooms' = [rooms EXCEPT ![room] =
                              [clients |-> Compact(r.slots),
                               accepted |-> o.accepted \cup {ws},
                               alive |-> o.alive \cup {ws},
                               store |-> o.store]]
               /\ roomSent' = r.log \o SendHistory(Compact(r.slots), o.store, ws)
    /\ UNCHANGED <<clients, accepted, alive, attachment, now, store, awaited,
                   joining, persisted, op, sent, joinLog, joinLive, chats>>

\* webSocketMessage of the object that accepted ws
RoomMessage(room, ws, raw) ==
    /\ ws \in rooms[room].accepted \cap rooms[room].alive
    /\ LET o == rooms[room]
           parsed == SafeParse(raw)
           frame == ChatFrame(parsed.data)
           r == FanOut(WithMetadata(o.clients, ws, parsed.data), o.alive, frame)
       IN IF ~parsed.success
          THEN /\ roomSent' = ErrorNotice(ws, parsed)
               /\ UNCHANGED rooms
          ELSE IF HasMessage(parsed.data)
          THEN /\ roomSent' = r.log
               /\ rooms' = [rooms EXCEPT ![room] =
                              [clients |-> Compact(r.slots),
                               accepted |-> o.accepted,
                               alive |-> o.alive,
                               store |-> Put(o.store, ToISOString(now), frame)]]
          ELSE /\ roomSent' = <<>>
               /\ rooms' = [rooms EXCEPT ![room].clients =
                              WithMetadata(o.clients, ws, parsed.data)]
    /\ roomOp' = RoomOp("message", <<>>, room, ws)
    /\ UNCHANGED <<clients, accepted, alive, attachment, now, store, awaited,
                   joining, persisted, op, sent, joinLog, joinLive, chats>>

\* webSocketClose of the object that accepted ws
RoomClose(room, ws, code, reason) ==
    /\ ws \in rooms[room].accepted
    /\ LET o == rooms[room]
           r == BroadcastClientsCount(MapDelete(o.clients, ws), o.alive \ {ws}, <<>>)
       IN /\ rooms' = [rooms EXCEPT ![room] =
                         [clients |-> Compact(r.slots),
                          accepted |-> o.accepted \ {ws},
                          alive |-> o.alive \ {ws},
                          store |-> o.store]]
          /\ roomSent' = r.log
    /\ roomOp' = RoomOp("close", <<>>, room, ws)
    /\ UNCHANGED <<clients, accepted, alive, attachment, now, store, awaited,
                   joining, persisted, op, sent, joinLog, joinLive, chats>>

\* the object of a room is evicted and constructed again
RoomConstructor(room) ==
    /\ \E order \in Orderings(rooms[room].accepted) :
          rooms' = [rooms EXCEPT ![room].clients = Reconstruct(order)]
    /\ roomOp' = RoomOp("constructor", <<>>, room, "")
    /\ roomSent' = <<>>
    /\ UNCHANGED <<clients, accepted, alive, attachment, now, store, awaited,
                   joining, persisted, op, sent, joinLog, joinLive, chats>>

\* the peer of ws goes away
RoomSendStartsThrowing(room, ws) ==
    /\ ws \in rooms[room].alive
    /\ rooms' = [rooms EXCEPT ![room].alive = @ \ {ws}]
    /\ roomOp' = RoomIdle
    /\ roomSent' = <<>>
    /\ UNCHANGED <<clients, accepted, alive, attachment, now, store, awaited,
                   joining, persisted, op, sent, joinLog, joinLive, chats>>

NextRooms ==
    \/ \E p \in Pathnames, h \in UpgradeHeaders, ws \in Conns : WorkerFetch(p, h, ws)
    \/ \E r \in RoomNames, ws \in Conns :
          \E raw \in Raws(Cardinality(DOMAIN rooms[r].store) + 1) :
             RoomMessage(r, ws, raw)
    \/ \E r \in RoomNames, ws \in Conns, code \in CloseCodes, reason \in CloseReasons :
          RoomClose(r, ws, code, reason)
    \/ \E r \in RoomNames : RoomConstructor(r)
    \/ \E r \in RoomNames, ws \in Conns : RoomSendStartsThrowing(r, ws)

SpecRooms == Init /\ [][NextRooms]_vars

\* ============================================================ properties
Received(log, ws, frame) ==
    Cardinality({ i \in DOMAIN log : log[i] = Sent(ws, frame) })

\* the step that ran last handled a validated message carrying chat content
ChatHandled ==
    /\ op.kind = "message"
    /\ op.parsed.success
    /\ op.parsed.data.hasMessage

\* the registered sessions of the step that ran last whose send throws
DeadBefore == MapKeys(op.before) \ alive
LiveBefore == MapKeys(op.before) \cap alive

\* C1: when a validated message with a message field is handled, every
\* registered session whose send succeeds, the sender included, receives that
\* exact message (once) in the fan-out, and every session whose send fails is
\* removed, however many sessions are dead and wherever they are in the Map.
C1_FanOutReachesEveryLiveSession ==
    ChatHandled =>
        /\ op.ws \in LiveBefore
        /\ \A ws \in LiveBefore : Received(sent, ws, ChatFrame(op.parsed.data)) = 1
        /\ MapKeys(clients) = LiveBefore

C1_Witness ==
    /\ ChatHandled
    /\ Len(op.before) = 3
    /\ op.before[1].ws \notin alive
    /\ op.before[2].ws \in alive
    /\ op.before[3].ws \notin alive
    /\ Received(sent, op.before[2].ws, ChatFrame(op.parsed.data)) = 1
    /\ Len(clients) = 1

CountFrames(log) == SelectSeq(log, LAMBDA e : e.frame.prefix = "user_count:")

\* C2: a chat message broadcast to N live sessions and one dead session
\* reaches all N live sessions, removes the dead one, and causes exactly one
\* membership-count broadcast: each live session receives one user_count
\* frame, and it carries N.
C2_OneDeadSessionOneCountBroadcast ==
    (ChatHandled /\ Cardinality(DeadBefore) = 1) =>
        LET n == Cardinality(LiveBefore)
        IN /\ \A ws \in LiveBefore :
                /\ Received(sent, ws, ChatFrame(op.parsed.data)) = 1
                /\ Received(sent, ws, UserCountFrame(n)) = 1
           /\ Len(CountFrames(sent)) = n
           /\ MapKeys(clients) = LiveBefore
           /\ MapSize(clients) = n

C2_Witness ==
    /\ ChatHandled
    /\ Len(op.before) = 3
    /\ op.before[2].ws \notin alive
    /\ Cardinality(LiveBefore) = 2
    /\ Len(CountFrames(sent)) = 2
    /\ sent[1].frame = ChatFrame(op.parsed.data)
    /\ sent[2].frame = UserCountFrame(2)

\* the last user_count frame that ws received in log carries n
LastCountIs(log, ws, n) ==
    \E i \in DOMAIN log :
        /\ log[i] = Sent(ws, UserCountFrame(n))
        /\ \A j \in (i + 1)..Len(log) :
              ~(log[j].to = ws /\ log[j].frame.prefix = "user_count:")

\* the sessions that a failed send removed in the step that ran last
FailedBefore == MapKeys(op.before) \ (alive \cup {op.ws})

\* C3: whenever a send fails during the membership-count pass of a Join, a
\* Leave or a fan-out, the failed session is removed and the count is
\* broadcast again, so that when the step completes the last user_count that
\* every session still registered received is the size of the registry.
C3_CountIsRepeatedAfterFailure ==
    ((op.kind \in {"fetch", "close"} \/ ChatHandled) /\ FailedBefore # {}) =>
        /\ MapKeys(clients) \cap FailedBefore = {}
        /\ \A ws \in MapKeys(clients) : LastCountIs(sent, ws, MapSize(clients))

\* C4: after a validated message on a connection for which the registry holds
\* no identity, the registry identity of the connection is the userName of
\* the message and the same userName is in the attachment of the connection.
C4_FirstMessageSetsIdentity ==
    (op.kind = "message" /\ op.parsed.success /\ ~MapGet(op.before, op.ws).defined) =>
        /\ MapGet(clients, op.ws) = Metadata(op.parsed.data.userName)
        /\ attachment[op.ws] = Metadata(op.parsed.data.userName)

C6_AnnouncementOrChat ==
    /\ (op.kind = "message" /\ op.parsed.success /\ ~op.parsed.data.hasMessage) =>
          /\ sent = <<>>
          /\ store = op.storeBefore
          /\ awaited = op.awaitedBefore
    /\ ChatHandled =>
          /\ \A ws \in LiveBefore : Received(sent, ws, ChatFrame(op.parsed.data)) = 1
          /\ awaited = Append(op.awaitedBefore,
                              PutOp(op.key, ChatFrame(op.parsed.data), LiveBefore))
    /\ op.kind = "put" =>
          /\ op.awaitedBefore # <<>>
          /\ IsPut(Head(op.awaitedBefore))
          /\ DOMAIN store = DOMAIN op.storeBefore \cup {Head(op.awaitedBefore).key}
          /\ store[Head(op.awaitedBefore).key] = Head(op.awaitedBefore).value

C6_Witness ==
    /\ op.kind = "message"
    /\ op.parsed.success
    /\ ~op.parsed.data.hasMessage
    /\ Len(clients) >= 2
    /\ store # <<>>
    /\ sent = <<>>

\* C7: when validation fails, exactly one error notice, from "system" and
\* carrying the message of the first issue, is sent, to the sender only; the
\* registry, the attachments, the store and the writes on their way to it are
\* unchanged, and the sender stays registered.
C7_ValidationFailure ==
    (op.kind = "message" /\ ~op.parsed.success) =>
        /\ Len(op.parsed.errors) >= 1
        /\ sent = <<Sent(op.ws, ErrorFrame(op.parsed.errors[1]))>>
        /\ sent[1].frame.userName = SystemName
        /\ clients = op.before
        /\ attachment = op.attachmentBefore
        /\ store = op.storeBefore
        /\ awaited = op.awaitedBefore
        /\ op.ws \in MapKeys(clients)

C7_Witness ==
    /\ op.kind = "message"
    /\ ~op.parsed.success
    /\ Len(op.parsed.errors) >= 2
    /\ Len(clients) >= 2
    /\ sent = <<Sent(op.ws, ErrorFrame("Name is too long"))>>

\* C8: every persisted message gets a key of its own, greater than the keys
\* in the store, so that no write replaces an entry and the store holds as
\* many entries as messages were persisted, also when two messages are
\* handled in the same millisecond.
C8_OneEntryPerPersistedMessage ==
    Cardinality(DOMAIN store) = Len(persisted)

LastN(seq, n) ==
    SubSeq(seq, (IF Len(seq) > n THEN Len(seq) - n ELSE 0) + 1, Len(seq))

\* C9: the history batch of a Join is the min(100, k) most recently persisted
\* of the k persisted messages, oldest first.
C9_HistoryIsTheLatestPersisted ==
    op.kind = "history" =>
        sent = <<Sent(op.ws, HistoryFrame(LastN(persisted, HistoryLimit)))>>

\* C10: a Join sends one history batch, to the joining connection and to no
\* other session, after the user_count frame that the membership broadcast
\* of that Join sent to the joining connection.
C10_OneHistoryBatchToTheJoiner ==
    /\ \A i \in DOMAIN sent :
          sent[i].frame.prefix = "history:" =>
              (op.kind = "history" /\ sent[i].to = op.ws)
    /\ op.kind = "history" =>
          /\ Len(sent) = 1
          /\ sent[1].to = op.ws
          /\ sent[1].frame.prefix = "history:"
    /\ \A ws \in Conns :
          /\ ws \notin accepted => joinLog[ws] = <<>>
          /\ ws \in joining => joinLog[ws] = <<"user_count:">>
          /\ ws \in accepted \ joining => joinLog[ws] = <<"user_count:", "history:">>

C10_Witness ==
    /\ op.kind = "history"
    /\ Len(clients) >= 2
    /\ clients[1].ws # op.ws
    /\ joinLog[op.ws] = <<"user_count:", "history:">>
    /\ Len(sent) = 1
    /\ Len(sent[1].frame.batch) >= 1

\* C11: a Join registers the connection with identity unset, the registry
\* grows by one, and every registered session, the joiner included, receives
\* a user_count frame that carries the size of the registry after the Join.
C11_JoinRegistersAndCounts ==
    op.kind = "fetch" =>
        /\ MapHas(clients, op.ws)
        /\ MapGet(clients, op.ws) = Undefined
        /\ MapSize(clients) = MapSize(op.before) + 1
        /\ \A ws \in MapKeys(clients) :
              Received(sent, ws, UserCountFrame(MapSize(clients))) = 1

\* C12: a Leave, whatever its close code and reason, leaves the connection
\* out of the registry, and every session that remains receives exactly one
\* user_count frame, which carries the size of the registry without the
\* leaving connection; the leaving connection receives nothing.
C12_LeaveRemovesAndCounts ==
    op.kind = "close" =>
        /\ op.ws \notin MapKeys(clients)
        /\ \A ws \in MapKeys(clients) :
              Received(sent, ws,
                       UserCountFrame(Cardinality(MapKeys(op.before) \ {op.ws}))) = 1
        /\ Len(sent) = MapSize(clients)
        /\ \A i \in DOMAIN sent : sent[i].to # op.ws

C12_Witness ==
    /\ op.kind = "close"
    /\ op.ws \in MapKeys(op.before)
    /\ MapSize(op.before) = 3
    /\ MapSize(clients) = 2
    /\ Len(sent) = 2
    /\ sent[1].frame = UserCountFrame(2)

\* C13: a Leave for a connection that the registry does not hold is a no-op:
\* the registry stays as it was and no session is sent anything.
C13_LeaveOfAbsentIsNoOp ==
    (op.kind = "close" /\ ~MapHas(op.before, op.ws)) =>
        /\ clients = op.before
        /\ sent = <<>>

Lobby == <<"l", "o", "b", "b", "y">>

\* the sockets of the rooms other than the one that acted last
SocketsElsewhere == UNION { roomOp.before[r].accepted : r \in RoomNames \ {roomOp.room} }

\* C14: a join, message, leave or recreation in one room sends nothing to a
\* session of another room and leaves the registry and the store of every
\* other room as they were; a request reaches the room named by the first
\* segment of its path in lower case, and the room "default" when that
\* segment is empty; a request without Upgrade: websocket changes nothing.
C14_RoomsAreIsolated ==
    /\ roomOp.kind # "none" =>
          /\ roomOp.room \in RoomNames
          /\ \A r \in RoomNames \ {roomOp.room} : rooms[r] = roomOp.before[r]
          /\ \A i \in DOMAIN roomSent : roomSent[i].to \notin SocketsElsewhere
    /\ roomOp.kind \in {"fetch", "426"} =>
          /\ roomOp.pathname \in { <<"/">>,
                                   <<"/", "d", "e", "f", "a", "u", "l", "t">>,
                                   <<"/", "D", "e", "f", "a", "u", "l", "t">> }
                => roomOp.room = DefaultRoom
          /\ roomOp.pathname \in { <<"/", "l", "o", "b", "b", "y">>,
                                   <<"/", "L", "o", "b", "b", "y">>,
                                   <<"/", "L", "O", "B", "B", "Y", "/", "x">> }
                => roomOp.room = Lobby
    /\ roomOp.kind = "fetch" => roomOp.ws \in rooms[roomOp.room].accepted
    /\ roomOp.kind = "426" => rooms = roomOp.before /\ roomSent = <<>>

C14_Witness ==
    /\ roomOp.kind = "fetch"
    /\ roomOp.pathname = <<"/", "L", "o", "b", "b", "y">>
    /\ roomOp.room = Lobby
    /\ Cardinality(rooms[Lobby].accepted) = 2
    /\ Len(roomSent) = 3
    /\ Cardinality(rooms[DefaultRoom].accepted) = 1
    /\ DOMAIN rooms[DefaultRoom].store # {}
    /\ DOMAIN rooms[Lobby].store = {}

\* the put that the step that ran last completed or saw rejected
PutBefore == Head(op.awaitedBefore)

\* C15: when a chat message is handled, every live registered session has
\* received it, once, before the handler awaits the put, and the put that is
\* awaited is the one for that message.  When the put is rejected, the
\* registry, the sockets and the store are as they were, the message has
\* been delivered to the sessions the fan-out reached (the sender among
\* them), and the object goes on to handle joins and messages.
C15_DeliveryIndependentOfPersistence ==
    /\ ChatHandled =>
          /\ \A ws \in LiveBefore : Received(sent, ws, ChatFrame(op.parsed.data)) = 1
          /\ awaited = Append(op.awaitedBefore,
                              PutOp(op.key, ChatFrame(op.parsed.data), LiveBefore))
    /\ op.kind = "putfail" =>
          /\ IsPut(PutBefore)
          /\ PutBefore.to # {}
          /\ clients = op.before
          /\ store = op.storeBefore
          /\ awaited = Tail(op.awaitedBefore)
          /\ \A ws \in Pair :
                /\ ws \notin accepted => ENABLED Fetch(ws)
                /\ ws \in (accepted \cap alive) \ joining =>
                      /\ ENABLED WebSocketMessage(ws, RawObject(TRUE, Al, FALSE, NoString))
                      /\ chats < MaxPersist =>
                            ENABLED WebSocketMessage(ws, RawObject(TRUE, Bo, TRUE,
                                                                   Text(chats + 1)))

C15_Witness ==
    /\ op.kind = "putfail"
    /\ PutBefore.to = Pair
    /\ MapKeys(clients) = Pair
    /\ store = <<>>
    /\ chats = 1
    /\ awaited = <<>>

\* C16: the payload {"userName":"a","message":""} is rejected: the sender,
\* and nobody else, is sent the error notice of the message-length check, and
\* nothing is persisted.
C16_EmptyMessageIsRejected ==
    (/\ op.kind = "message"
     /\ op.parsed = SafeParse(RawObject(TRUE, <<"a">>, TRUE, NoString))) =>
        /\ sent = <<Sent(op.ws, ErrorFrame("Message is too short"))>>
        /\ clients = op.before
        /\ store = op.storeBefore
        /\ awaited = op.awaitedBefore

\* C17: every read and every mutation of the registry that a handler makes
\* happens in the part of the handler that runs before its await; the part
\* that runs after the history read or after the write, which other handlers
\* may have preceded, leaves the registry as it finds it.
C17_RegistryUntouchedAfterAwait ==
    op.kind \in {"history", "put", "putfail"} =>
        /\ clients = op.before
        /\ \A i \in DOMAIN sent : sent[i].to = op.ws /\ sent[i].frame.prefix = "history:"

C17_Witness ==
    /\ op.kind = "history"
    /\ op.live # {}
    /\ MapKeys(op.before) \ alive # {}
    /\ clients = op.before
    /\ Len(sent) = 1

\* the messages in the history batch of the step that ran last
BatchOf(log) == { log[1].frame.batch[i] : i \in DOMAIN log[1].frame.batch }

FanOutIndex(frame) == CHOOSE k \in 1..9 : frame.text = Text(k)

\* the keys and values in the store or on their way to it
Entries ==
    { <<k, store[k]>> : k \in DOMAIN store }
        \cup { <<awaited[i].key, awaited[i].value>> :
                  i \in { j \in DOMAIN awaited : IsPut(awaited[j]) } }

\* C20: the keys of persisted messages are in the order of their fan-outs,
\* also for messages whose handlers awaited their writes at the same time,
\* and a history batch lists the messages in that order, oldest first.
C20_KeyOrderIsFanOutOrder ==
    /\ \A e1, e2 \in Entries :
          KeyLess(e1[1], e2[1]) => FanOutIndex(e1[2]) < FanOutIndex(e2[2])
    /\ op.kind = "history" =>
          LET batch == sent[1].frame.batch
          IN \A i, j \in DOMAIN batch :
                i < j => FanOutIndex(batch[i]) < FanOutIndex(batch[j])

C20_Witness ==
    /\ op.kind = "history"
    /\ Len(sent[1].frame.batch) = 2
    /\ FanOutIndex(sent[1].frame.batch[1]) = 1
    /\ FanOutIndex(sent[1].frame.batch[2]) = 2
    /\ Cardinality(DOMAIN store) = 2

====
